---- MODULE Spec2Model ----
(***************************************************************************)
(* Monorepo versioning of sv4git: the document path navigator, the         *)
(* structured document codec, the three-tier baseline resolver and the     *)
(* monorepo-bump / monorepo-tag handlers.                                  *)
(*                                                                         *)
(* A text is a sequence of dot-separated fields; a field is a natural      *)
(* number, or -1 for a word that is not a number: <<1,0,0>> is "1.0.0",    *)
(* <<123>> is "123", <<-1>> is "not-a-version". Two integers wider than a  *)
(* float64 mantissa are fields of their own: Wide is 9007199254740993      *)
(* (2^53 + 1) and WideRounded is 9007199254740992 (2^53); they occur only  *)
(* as whole scalars, never as a field of a version.                        *)
(* A document tree node is a record [tag, text, m]: tag "map" with the     *)
(* mapping m (a function from keys to nodes), or tag "str" / "num" with    *)
(* the scalar's text.                                                      *)
(***************************************************************************)
EXTENDS Integers, Sequences, FiniteSets, TLC

\* ------------------------------------------------------------------ bounds

MaxDepth == 1      \* nesting depth of the documents the navigator is tried on
MaxSegs == 3       \* longest segment sequence the navigator is tried on
MaxCommits == 2    \* commits added to the repository history
MaxField == 1      \* a handler starts only with version fields up to this
MaxPathLen == 7    \* longest path expression parsePath is tried on
MaxTags == 3       \* tags in the repository monorepo-changelog is tried on

\* ------------------------------------------------------------ document tree

EmptyMap == [k \in {} |-> 0]

Str(t) == [tag |-> "str", text |-> t, m |-> EmptyMap]

Num(t) == [tag |-> "num", text |-> t, m |-> EmptyMap]

Map(f) == [tag |-> "map", text |-> <<>>, m |-> f]

IsMap(n) == n.tag = "map"

\* ---------------------------------------------------------------- navigator

Tail2(s) == SubSeq(s, 2, Len(s))

\* getByPath: [err |-> "", val |-> leaf] or [err |-> kind, val |-> nil]
NoValue == Num(<<>>)

\* getByPath that reports a scalar met on the way as a missing key
RECURSIVE getByPathNoMapCheck(_, _)
getByPathNoMapCheck(data, segments) ==
  IF Len(segments) = 0 THEN [err |-> "empty path", val |-> NoValue]
  ELSE IF segments[1] \notin DOMAIN data THEN [err |-> "not found", val |-> NoValue]
  ELSE IF Len(segments) = 1 THEN [err |-> "", val |-> data[segments[1]]]
  ELSE getByPathNoMapCheck(data[segments[1]].m, Tail2(segments))

RECURSIVE getByPath(_, _)
getByPath(data, segments) ==
  IF Len(segments) = 0 THEN [err |-> "empty path", val |-> NoValue]
  ELSE IF segments[1] \notin DOMAIN data THEN [err |-> "not found", val |-> NoValue]
  ELSE IF Len(segments) = 1 THEN [err |-> "", val |-> data[segments[1]]]
  ELSE IF ~IsMap(data[segments[1]]) THEN [err |-> "not a map", val |-> NoValue]
  ELSE getByPath(data[segments[1]].m, Tail2(segments))

\* a final-segment assignment that adds the key when the mapping lacks it
SetLeafCreating(data, key, value) ==
  [err |-> "",
   data |-> [k \in DOMAIN data \cup {key} |-> IF k = key THEN Str(value) ELSE data[k]]]

SetLeaf(data, key, value) ==
  IF key \notin DOMAIN data THEN [err |-> "not found", data |-> data]
  ELSE [err |-> "", data |-> [data EXCEPT ![key] = Str(value)]]

\* setByPath that reports a scalar met on the way as a missing key
RECURSIVE setByPathNoMapCheck(_, _, _)
setByPathNoMapCheck(data, segments, value) ==
  IF Len(segments) = 0 THEN [err |-> "empty path", data |-> data]
  ELSE IF Len(segments) = 1 THEN SetLeaf(data, segments[1], value)
  ELSE IF segments[1] \notin DOMAIN data THEN [err |-> "not found", data |-> data]
  ELSE IF ~IsMap(data[segments[1]]) THEN [err |-> "not found", data |-> data]
  ELSE LET r == setByPathNoMapCheck(data[segments[1]].m, Tail2(segments), value)
       IN [err |-> r.err,
           data |-> [data EXCEPT ![segments[1]] = Map(r.data)]]

\* setByPath mutates the map in place: data is the map after the call.
RECURSIVE setByPath(_, _, _)
setByPath(data, segments, value) ==
  IF Len(segments) = 0 THEN [err |-> "empty path", data |-> data]
  ELSE IF Len(segments) = 1 THEN SetLeaf(data, segments[1], value)
  ELSE IF segments[1] \notin DOMAIN data THEN [err |-> "not found", data |-> data]
  ELSE IF ~IsMap(data[segments[1]]) THEN [err |-> "not a map", data |-> data]
  ELSE LET r == setByPath(data[segments[1]].m, Tail2(segments), value)
       IN [err |-> r.err,
           data |-> [data EXCEPT ![segments[1]] = Map(r.data)]]

\* ------------------------------------------------------------- path parsing

\* a flush that also appends a segment of no characters
FlushAlways(segments, current) == Append(segments, current)

Flush(segments, current) ==
  IF Len(current) > 0 THEN Append(segments, current) ELSE segments

PathErr(e) == [err |-> e, segs |-> <<>>]

\* a scan for the end of a literal that stops at either quote character
RECURSIVE FindQuoteEither(_, _, _)
FindQuoteEither(path, i, quote) ==
  IF i > Len(path) \/ path[i] \in {"\"", "'"} THEN i
  ELSE FindQuoteEither(path, i + 1, quote)

\* index of the first occurrence of quote in path at or after i, else Len+1
RECURSIVE FindQuote(_, _, _)
FindQuote(path, i, quote) ==
  IF i > Len(path) \/ path[i] = quote THEN i ELSE FindQuote(path, i + 1, quote)

RECURSIVE parseLoop(_, _, _, _)
parseLoop(path, i, segments, current) ==
  IF i > Len(path) THEN
    LET segs == Flush(segments, current)
    IN IF Len(segs) = 0 THEN PathErr("no segments") ELSE [err |-> "", segs |-> segs]
  ELSE IF path[i] = "." THEN parseLoop(path, i + 1, Flush(segments, current), <<>>)
  ELSE IF path[i] = "[" THEN
    LET segs == Flush(segments, current)
    IN IF i + 1 > Len(path) THEN PathErr("unexpected end of path")
       ELSE IF path[i + 1] \notin {"\"", "'"} THEN PathErr("expected quote")
       ELSE LET close == FindQuote(path, i + 2, path[i + 1])
                after == IF close + 2 <= Len(path) /\ path[close + 2] = "."
                         THEN close + 3 ELSE close + 2
            IN IF close > Len(path) THEN PathErr("unclosed string")
               ELSE IF close + 1 > Len(path) \/ path[close + 1] # "]"
                 THEN PathErr("expected ]")
               ELSE parseLoop(path, after,
                              Append(segs, SubSeq(path, i + 2, close - 1)), <<>>)
  ELSE parseLoop(path, i + 1, segments, Append(current, path[i]))

\* parsePath with a bracket that ends the input read as an empty last key
parsePathOpenEnd(path) ==
  IF Len(path) = 0 THEN PathErr("empty path")
  ELSE IF path[Len(path)] = "[" /\ Len(path) > 1
    THEN parseLoop(SubSeq(path, 1, Len(path) - 1), IF path[1] = "." THEN 2 ELSE 1,
                   <<>>, <<>>)
  ELSE parseLoop(path, IF path[1] = "." THEN 2 ELSE 1, <<>>, <<>>)

\* parsePath: a path is a sequence of characters, a segment a sequence of
\* characters; [err |-> "", segs |-> segments] or [err |-> kind, segs |-> <<>>]
parsePath(path) ==
  IF Len(path) = 0 THEN PathErr("empty path")
  ELSE parseLoop(path, IF path[1] = "." THEN 2 ELSE 1, <<>>, <<>>)

\* --------------------------------------------------- semantic version value

Wide == -2

WideRounded == -3

IsNumberField(f) == f >= 0 \/ f \in {Wide, WideRounded}

AllNumeric(t) == \A i \in 1..Len(t) : IsNumberField(t[i])

\* the text reads as a YAML integer or float
LooksNumeric(t) == Len(t) \in {1, 2} /\ AllNumeric(t)

NilVersion == [major |-> -1, minor |-> -1, patch |-> -1]

\* the letter "v" in front of a version text
VPrefix == -4

\* ToVersion: major.minor.patch, every field numeric; a leading "v" belongs to
\* the original literal and not to the fields
ToVersion(t) ==
  LET body == IF Len(t) > 0 /\ t[1] = VPrefix THEN Tail(t) ELSE t
  IN IF Len(body) = 3 /\ (\A i \in 1..3 : body[i] >= 0)
     THEN [err |-> "", v |-> [major |-> body[1], minor |-> body[2], patch |-> body[3]]]
     ELSE [err |-> "invalid semver", v |-> NilVersion]

Original(v) == <<v.major, v.minor, v.patch>>

Equal(a, b) == a.major = b.major /\ a.minor = b.minor /\ a.patch = b.patch

\* -------------------------------------------------- structured document codec
\* A file's content is a tree of tokens: tag "map" with the mapping, tag
\* "quoted" or "plain" with the scalar's text as written, or tag "garbage"
\* for bytes that are no document of the format.

Quoted(t) == [tag |-> "quoted", text |-> t, m |-> EmptyMap]

Plain(t) == [tag |-> "plain", text |-> t, m |-> EmptyMap]

Garbage == [tag |-> "garbage", text |-> <<>>, m |-> EmptyMap]

\* the nearest float64 of a number text: json.Unmarshal into interface{}
\* holds every JSON number as a float64
Float64(t) == IF t = <<Wide>> THEN <<WideRounded>> ELSE t

\* ext is ".json" or ".yml"; yaml.Unmarshal holds an integer as an int
RECURSIVE DecodeNode(_, _)
DecodeNode(ext, tok) ==
  IF tok.tag = "map" THEN Map([k \in DOMAIN tok.m |-> DecodeNode(ext, tok.m[k])])
  ELSE IF tok.tag = "quoted" THEN Str(tok.text)
  ELSE IF ext = ".json" THEN Num(Float64(tok.text))
  ELSE IF LooksNumeric(tok.text) THEN Num(tok.text)
  ELSE Str(tok.text)

EncodeScalar(ext, n) ==
  IF n.tag = "num" THEN Plain(n.text)
  ELSE IF ext = ".json" \/ LooksNumeric(n.text) THEN Quoted(n.text)
  ELSE Plain(n.text)

RECURSIVE EncodeNode(_, _)
EncodeNode(ext, n) ==
  IF n.tag = "map" THEN Map([k \in DOMAIN n.m |-> EncodeNode(ext, n.m[k])])
  ELSE EncodeScalar(ext, n)

\* a bare token that is no number is no JSON
RECURSIVE WellFormed(_, _)
WellFormed(ext, tok) ==
  CASE tok.tag = "map" -> \A k \in DOMAIN tok.m : WellFormed(ext, tok.m[k])
    [] tok.tag = "plain" -> ext # ".json" \/ LooksNumeric(tok.text)
    [] tok.tag = "quoted" -> TRUE
    [] OTHER -> FALSE

parseFileContent(ext, content) ==
  IF content.tag # "map" \/ ~WellFormed(ext, content)
  THEN [err |-> "parse", data |-> EmptyMap]
  ELSE [err |-> "", data |-> DecodeNode(ext, content).m]

\* marshalToFile: the bytes written to the file
marshalToFile(ext, data) == EncodeNode(ext, Map(data))

\* ----------------------------------------------------------- file I/O helpers

VerErr(e) == [err |-> e, v |-> NilVersion]

\* ReadVersionFromBytes that formats a value that is no string as text
ReadVersionFromBytesCoercing(ext, content, dotPath) ==
  LET d == parseFileContent(ext, content)
      p == parsePath(dotPath)
      raw == getByPath(d.data, p.segs)
  IN IF d.err # "" THEN VerErr(d.err)
     ELSE IF p.err # "" THEN VerErr("invalid path")
     ELSE IF raw.err # "" THEN VerErr(raw.err)
     ELSE ToVersion(raw.val.text)

ReadVersionFromBytes(ext, content, dotPath) ==
  LET d == parseFileContent(ext, content)
      p == parsePath(dotPath)
      raw == getByPath(d.data, p.segs)
  IN IF d.err # "" THEN VerErr(d.err)
     ELSE IF p.err # "" THEN VerErr("invalid path")
     ELSE IF raw.err # "" THEN VerErr(raw.err)
     ELSE IF raw.val.tag # "str" THEN VerErr("not a string")
     ELSE ToVersion(raw.val.text)

\* readVersionFromFile: the file is present on disk in every state modelled
readVersionFromFile(ext, content, dotPath) == ReadVersionFromBytes(ext, content, dotPath)

\* writeVersionToFile that writes the decoded document back before it
\* reports a failed path
writeVersionToFileEager(ext, content, dotPath, version) ==
  LET d == parseFileContent(ext, content)
      p == parsePath(dotPath)
      s == setByPath(d.data, p.segs, version)
  IN IF d.err # "" THEN [err |-> d.err, content |-> content]
     ELSE IF p.err # "" THEN [err |-> "invalid path", content |-> marshalToFile(ext, d.data)]
     ELSE [err |-> s.err, content |-> marshalToFile(ext, s.data)]

\* writeVersionToFile that marshals the document as it was read
writeVersionToFileStale(ext, content, dotPath, version) ==
  LET d == parseFileContent(ext, content)
      p == parsePath(dotPath)
      s == setByPath(d.data, p.segs, version)
  IN IF d.err # "" THEN [err |-> d.err, content |-> content]
     ELSE IF p.err # "" THEN [err |-> "invalid path", content |-> content]
     ELSE IF s.err # "" THEN [err |-> s.err, content |-> content]
     ELSE [err |-> "", content |-> marshalToFile(ext, d.data)]

\* writeVersionToFile: [err, content], content the file's bytes afterwards
writeVersionToFile(ext, content, dotPath, version) ==
  LET d == parseFileContent(ext, content)
      p == parsePath(dotPath)
      s == setByPath(d.data, p.segs, version)
  IN IF d.err # "" THEN [err |-> d.err, content |-> content]
     ELSE IF p.err # "" THEN [err |-> "invalid path", content |-> content]
     ELSE IF s.err # "" THEN [err |-> s.err, content |-> content]
     ELSE [err |-> "", content |-> marshalToFile(ext, s.data)]

\* ------------------------------------------------------------------- state

VARIABLES
  disk,        \* component -> bytes of its versioning document on disk
  log,         \* repository history, oldest first: [comp, class, touch, content]
  tags,        \* component tags in creation order: [comp, at, text]
  pc,          \* "idle", "bump" (monorepo-bump running), "tag" (monorepo-tag)
  components,  \* the list FindComponents returned to the running handler
  idx,         \* position of the handler's loop in components
  result,      \* how the last handler ended: "", "ok" or "error"
  steps,       \* what the running handler resolved for each component so far
  calls,       \* UpdateVersion / TagForComponent calls of the running handler
  stable,      \* a monorepo-bump run has ended without error and nothing
               \* has changed since
  budget,      \* commits the history may still grow by
  prior        \* the steps of the monorepo-bump run that ended without error
               \* just before the running handler started

vars == <<disk, log, tags, pc, components, idx, result, steps, calls, stable, budget,
          prior>>

\* the navigator tried on its own: a document tree, a segment sequence, the
\* text to set, and the outcome of the last call
VARIABLES navData, navSegs, navValue, navOut

navVars == <<navData, navSegs, navValue, navOut>>

\* the file helpers tried on their own: a file (extension and bytes), a path
\* expression, the version text to write, and the outcome of the last call
VARIABLES fileExt, fileContent, filePath, fileVersion, fileOut

fileVars == <<fileExt, fileContent, filePath, fileVersion, fileOut>>

\* parsePath tried on its own: a path expression and the outcome of the call
VARIABLES pathText, pathOut

pathVars == <<pathText, pathOut>>

\* FindComponents tried on its own: cfg.VersioningFile and the outcome of the
\* call; the documents are those of disk
VARIABLES findPattern, findOut

findVars == <<findPattern, findOut>>

\* the bump resolver tried on its own: a base version, a commit sequence and
\* the outcome of the call
VARIABLES bumpBase, bumpCommits, bumpOut

bumpVars == <<bumpBase, bumpCommits, bumpOut>>

\* the calls that fail in this execution: [comp, op] with op "Log" (the
\* history cannot be read for the component's directory) or "UpdateVersion"
\* (the component's versioning document cannot be read or written)
VARIABLES faults

auxVars == <<pathVars, findVars, bumpVars, faults>>

\* monorepo-changelog tried on its own: the tags of the repository, the flags
\* of the command and the release notes of the last call
VARIABLES chTags, chSize, chAll, chSemOnly, chOut

chVars == <<chTags, chSize, chAll, chSemOnly, chOut>>

\* two invocations of writeVersionToFile running at once: the files on disk
\* and each invocation's position and local copy of its document
VARIABLES rcDisk, rcProc

rcVars == <<rcDisk, rcProc>>

sideVars == <<chVars, rcVars>>

allVars == <<vars, navVars, fileVars, auxVars, sideVars>>

\* ------------------------------------------------------------ configuration

\* glob matches in discovery order
Components == <<"alpha", "beta">>

CompSet == {Components[i] : i \in 1..Len(Components)}

\* alpha/package.json, beta/version.yml
Ext(c) == IF c = "alpha" THEN ".json" ELSE ".yml"

\* cfg.Monorepo.Path: .m.v (metadata.version)
CfgPath == <<".", "m", ".", "v">>

KeyM == <<"m">>

KeyV == <<"v">>

KeyN == <<"n">>

\* a key that holds a dot: "m.v" (backstage.io/template-version)
KeyMV == <<"m", ".", "v">>

V(a, b, c) == [major |-> a, minor |-> b, patch |-> c]

\* a document {m: {v: <version scalar>, n: <name scalar>}}
Doc(vtok, ntok) ==
  Map((KeyM :> Map((KeyV :> vtok) @@ (KeyN :> ntok))))

\* {m: {v: "1.0.0", n: "7"}}
InitialDoc(c) == Doc(EncodeScalar(Ext(c), Str(<<1, 0, 0>>)),
                     EncodeScalar(Ext(c), Str(<<7>>)))

\* ------------------------------------------- repository-history collaborator

Classes == {"none", "patch", "minor", "major"}

\* the classes of the commits added to the history
CommitClasses == {"none", "patch", "minor"}

\* a tag <relDir>/v<semver> is held as its directory (comp), its last path
\* element (text) and the commit it points at (at)
NoTag == [comp |-> "", at |-> 0, text |-> <<>>]

\* the last path element of the name of a component tag: "v" + version
TagText(version) == <<VPrefix>> \o Original(version)

RECURSIVE LastMatching(_, _, _)
LastMatching(seq, i, c) ==
  IF i = 0 THEN 0
  ELSE IF seq[i].comp = c THEN i
  ELSE LastMatching(seq, i - 1, c)

\* LastComponentTag that returns the most recent tag of any component
LastComponentTagAny(c) ==
  IF tags = <<>> THEN NoTag ELSE tags[Len(tags)]

\* LastComponentTag: the most recent tag <relDir>/v<semver>, or NoTag for ""
LastComponentTag(c) ==
  LET i == LastMatching(tags, Len(tags), c)
  IN IF i = 0 THEN NoTag ELSE tags[i]

\* Log over a range that starts after position from, filtered to the
\* component's directory; newest first
RECURSIVE LogAfter(_, _, _)
LogAfter(from, i, c) ==
  IF i <= from THEN <<>>
  ELSE IF log[i].comp = c THEN <<log[i]>> \o LogAfter(from, i - 1, c)
  ELSE LogAfter(from, i - 1, c)

Log(from, c) == LogAfter(from, Len(log), c)

RECURSIVE LastTouch(_, _)
LastTouch(i, c) ==
  IF i = 0 THEN 0
  ELSE IF log[i].comp = c /\ log[i].touch # "none" THEN i
  ELSE LastTouch(i - 1, c)

\* LastFileCommit: position of the last commit that touched the component's
\* versioning document, 0 for ""
LastFileCommit(c) == LastTouch(Len(log), c)

\* ShowFile: the document as of that commit; fails when the commit removed it
ShowFile(h, c) ==
  IF log[h].touch = "put" THEN [err |-> "", content |-> log[h].content]
  ELSE [err |-> "show failed", content |-> Garbage]

\* ------------------------------------------------------------- bump resolver

Severity(class) ==
  CASE class = "major" -> 3 [] class = "minor" -> 2 [] class = "patch" -> 1
    [] OTHER -> 0

RECURSIVE MaxSeverity(_, _)
MaxSeverity(commits, i) ==
  IF i = 0 THEN 0
  ELSE LET rest == MaxSeverity(commits, i - 1)
           s == Severity(commits[i].class)
       IN IF s > rest THEN s ELSE rest

\* a resolver that lets the newest commit alone decide
NextVersionNewest(version, commits) ==
  LET s == IF Len(commits) = 0 THEN 0 ELSE Severity(commits[1].class)
  IN [updated |-> s > 0,
      v |-> CASE s = 3 -> V(version.major + 1, 0, 0)
              [] s = 2 -> V(version.major, version.minor + 1, 0)
              [] s = 1 -> V(version.major, version.minor, version.patch + 1)
              [] OTHER -> version]

\* SemVerCommitsProcessor.NextVersion
NextVersion(version, commits) ==
  LET s == MaxSeverity(commits, Len(commits))
  IN [updated |-> s > 0,
      v |-> CASE s = 3 -> V(version.major + 1, 0, 0)
              [] s = 2 -> V(version.major, version.minor + 1, 0)
              [] s = 1 -> V(version.major, version.minor, version.patch + 1)
              [] OTHER -> version]

\* ------------------------------------------------------- component discovery

\* cfg.Monorepo.VersioningFile: */doc
CfgVersioningFile == "*/doc"

\* filepath.Glob: the versioning documents the pattern matches, in order
Glob(pattern) ==
  CASE pattern = "[" -> [err |-> "bad pattern", matches |-> <<>>]
    [] pattern = "*/doc" -> [err |-> "", matches |-> Components]
    [] pattern = "alpha/doc" -> [err |-> "", matches |-> <<"alpha">>]
    [] OTHER -> [err |-> "", matches |-> <<>>]

\* the loop over the matches with a document that cannot be read left out
RECURSIVE FindFromSkipping(_, _, _)
FindFromSkipping(matches, i, d) ==
  IF i > Len(matches) THEN [err |-> "", list |-> <<>>]
  ELSE LET c == matches[i]
           r == readVersionFromFile(Ext(c), d[c], CfgPath)
           rest == FindFromSkipping(matches, i + 1, d)
       IN IF r.err # "" THEN rest
          ELSE [err |-> "",
                list |-> <<[Name |-> c, CurrentVersion |-> r.v]>> \o rest.list]

RECURSIVE FindFrom(_, _, _)
FindFrom(matches, i, d) ==
  IF i > Len(matches) THEN [err |-> "", list |-> <<>>]
  ELSE LET c == matches[i]
           r == readVersionFromFile(Ext(c), d[c], CfgPath)
           rest == FindFrom(matches, i + 1, d)
       IN IF r.err # "" THEN [err |-> r.err, list |-> <<>>]
          ELSE IF rest.err # "" THEN rest
          ELSE [err |-> "",
                list |-> <<[Name |-> c, CurrentVersion |-> r.v]>> \o rest.list]

\* FindComponents with cfg.VersioningFile = pattern over the documents d
FindComponentsIn(pattern, d) ==
  LET g == Glob(pattern)
  IN IF pattern = "" THEN [err |-> "not configured", list |-> <<>>]
     ELSE IF g.err # "" THEN [err |-> "invalid glob", list |-> <<>>]
     ELSE IF Len(g.matches) = 0 THEN [err |-> "no files matched", list |-> <<>>]
     ELSE FindFrom(g.matches, 1, d)

\* FindComponents over the documents d on disk
FindComponents(d) == FindComponentsIn(CfgVersioningFile, d)

Fails(c, op) == [comp |-> c, op |-> op] \in faults

\* UpdateVersion: [err, content]; the document may be unreadable or unwritable
\* UpdateVersion that sets the version in the document as it was first found
UpdateVersionCached(c, content, version) ==
  IF Fails(c, "UpdateVersion") THEN [err |-> "io", content |-> content]
  ELSE writeVersionToFile(Ext(c), InitialDoc(c), CfgPath, Original(version))

UpdateVersion(c, content, version) ==
  IF Fails(c, "UpdateVersion") THEN [err |-> "io", content |-> content]
  ELSE writeVersionToFile(Ext(c), content, CfgPath, Original(version))

\* --------------------------------------------------------- baseline resolver

Baseline(tier, base, commits) ==
  [err |-> "", tier |-> tier, base |-> base, commits |-> commits]

\* the resolver with the document's history tried before the tag
componentBaseFileFirst(component) ==
  LET c == component.Name
      lastTag == LastComponentTag(c)
      fileCommit == LastFileCommit(c)
      shown == ShowFile(fileCommit, c)
      hist == ReadVersionFromBytes(Ext(c), shown.content, CfgPath)
  IN IF fileCommit # 0
       THEN IF shown.err = "" /\ hist.err = ""
              THEN Baseline(2, hist.v, Log(fileCommit, c))
              ELSE Baseline(2, component.CurrentVersion, Log(fileCommit, c))
     ELSE IF lastTag # NoTag
       THEN Baseline(1, ToVersion(lastTag.text).v, Log(lastTag.at, c))
     ELSE Baseline(3, component.CurrentVersion, Log(0, c))

\* the resolver with tier 2 anchored to the document on disk
componentBaseFromDisk(component) ==
  LET c == component.Name
      lastTag == LastComponentTag(c)
      fileCommit == LastFileCommit(c)
  IN IF lastTag # NoTag
       THEN Baseline(1, ToVersion(lastTag.text).v, Log(lastTag.at, c))
     ELSE IF fileCommit # 0
       THEN Baseline(2, component.CurrentVersion, Log(fileCommit, c))
     ELSE Baseline(3, component.CurrentVersion, Log(0, c))

\* the resolver with a failed ShowFile or parse reported as an error
componentBaseStrict(component) ==
  LET c == component.Name
      lastTag == LastComponentTag(c)
      fileCommit == LastFileCommit(c)
      shown == ShowFile(fileCommit, c)
      hist == ReadVersionFromBytes(Ext(c), shown.content, CfgPath)
  IN IF lastTag # NoTag
       THEN Baseline(1, ToVersion(lastTag.text).v, Log(lastTag.at, c))
     ELSE IF fileCommit # 0
       THEN IF shown.err = "" /\ hist.err = ""
              THEN Baseline(2, hist.v, Log(fileCommit, c))
              ELSE [err |-> "show failed", tier |-> 2, base |-> NilVersion,
                    commits |-> <<>>]
     ELSE Baseline(3, component.CurrentVersion, Log(0, c))

\* the resolver answering the second of two runs from the document on disk
componentBaseUnsteady(component) ==
  LET c == component.Name
      lastTag == LastComponentTag(c)
      fileCommit == LastFileCommit(c)
      shown == ShowFile(fileCommit, c)
      hist == ReadVersionFromBytes(Ext(c), shown.content, CfgPath)
  IN IF prior # <<>> /\ pc = "bump"
       THEN Baseline(3, component.CurrentVersion, Log(0, c))
     ELSE IF lastTag # NoTag
       THEN Baseline(1, ToVersion(lastTag.text).v, Log(lastTag.at, c))
     ELSE IF fileCommit # 0
       THEN IF shown.err = "" /\ hist.err = ""
              THEN Baseline(2, hist.v, Log(fileCommit, c))
              ELSE Baseline(2, component.CurrentVersion, Log(fileCommit, c))
     ELSE Baseline(3, component.CurrentVersion, Log(0, c))

\* a failed Log is returned as the error in each of the three tiers
componentBaseVersionAndCommits(component) ==
  LET c == component.Name
      lastTag == LastComponentTag(c)
      fileCommit == LastFileCommit(c)
      shown == ShowFile(fileCommit, c)
      hist == ReadVersionFromBytes(Ext(c), shown.content, CfgPath)
      tier == IF lastTag # NoTag THEN 1 ELSE IF fileCommit # 0 THEN 2 ELSE 3
  IN IF Fails(c, "Log")
       THEN [err |-> "log failed", tier |-> tier, base |-> NilVersion, commits |-> <<>>]
     ELSE IF lastTag # NoTag
       THEN Baseline(1, ToVersion(lastTag.text).v, Log(lastTag.at, c))
     ELSE IF fileCommit # 0
       THEN IF shown.err = "" /\ hist.err = ""
              THEN Baseline(2, hist.v, Log(fileCommit, c))
              ELSE Baseline(2, component.CurrentVersion, Log(fileCommit, c))
     ELSE Baseline(3, component.CurrentVersion, Log(0, c))

\* componentCommits: commits since the last component tag, else all of them
componentCommits(component) ==
  IF Fails(component.Name, "Log") THEN [err |-> "log failed", commits |-> <<>>]
  ELSE [err |-> "",
        commits |-> Log(LastComponentTag(component.Name).at, component.Name)]

\* ------------------------------------------------------------------ handlers

\* TagForComponent creates the tag <relDir>/v<version> at HEAD; git refuses a
\* tag name that exists
TagForComponent(version, c) ==
  IF \E i \in 1..Len(tags) : tags[i].comp = c /\ tags[i].text = TagText(version)
  THEN [err |-> "tag exists", tags |-> tags]
  ELSE [err |-> "",
        tags |-> Append(tags, [comp |-> c, at |-> Len(log), text |-> TagText(version)])]

Outcome(tier, base, commits, n, current, write, tag, err, content) ==
  [tier |-> tier, base |-> base, commits |-> commits, changed |-> n.updated,
   next |-> n.v, current |-> current, write |-> write, tag |-> tag,
   err |-> err, content |-> content]

\* the body of monorepo-bump's loop without the "already at" check
monorepoUpdateVersionStepNoEqual(component, content) ==
  LET b == componentBaseVersionAndCommits(component)
      n == NextVersion(b.base, b.commits)
      w == UpdateVersion(component.Name, content, n.v)
  IN IF b.err # "" \/ ~n.updated
       THEN Outcome(b.tier, b.base, b.commits, n, component.CurrentVersion,
                    FALSE, FALSE, b.err, content)
     ELSE Outcome(b.tier, b.base, b.commits, n, component.CurrentVersion,
                  TRUE, FALSE, w.err, w.content)

\* the body of monorepo-bump's loop for one component; content is the
\* component's document on disk when UpdateVersion reads it
monorepoUpdateVersionStep(component, content) ==
  LET b == componentBaseVersionAndCommits(component)
      n == NextVersion(b.base, b.commits)
      w == UpdateVersion(component.Name, content, n.v)
  IN IF b.err # "" \/ ~n.updated \/ Equal(n.v, component.CurrentVersion)
       THEN Outcome(b.tier, b.base, b.commits, n, component.CurrentVersion,
                    FALSE, FALSE, b.err, content)
     ELSE Outcome(b.tier, b.base, b.commits, n, component.CurrentVersion,
                  TRUE, FALSE, w.err, w.content)

\* the body of monorepo-tag's loop creating the tag also after a failed
\* UpdateVersion
monorepoTagStepAlways(component, content) ==
  LET cc == componentCommits(component)
      commits == cc.commits
      n == NextVersion(component.CurrentVersion, commits)
      w == UpdateVersion(component.Name, content, n.v)
  IN IF cc.err # ""
       THEN Outcome(0, component.CurrentVersion, commits, n, component.CurrentVersion,
                    FALSE, FALSE, cc.err, content)
     ELSE IF ~n.updated
       THEN Outcome(0, component.CurrentVersion, commits, n, component.CurrentVersion,
                    FALSE, FALSE, "", content)
     ELSE Outcome(0, component.CurrentVersion, commits, n, component.CurrentVersion,
                  TRUE, TRUE, w.err, w.content)

\* the body of monorepo-tag's loop for one component
monorepoTagStep(component, content) ==
  LET cc == componentCommits(component)
      commits == cc.commits
      n == NextVersion(component.CurrentVersion, commits)
      w == UpdateVersion(component.Name, content, n.v)
      t == TagForComponent(n.v, component.Name)
  IN IF cc.err # ""
       THEN Outcome(0, component.CurrentVersion, commits, n, component.CurrentVersion,
                    FALSE, FALSE, cc.err, content)
     ELSE IF ~n.updated
       THEN Outcome(0, component.CurrentVersion, commits, n, component.CurrentVersion,
                    FALSE, FALSE, "", content)
     ELSE IF w.err # ""
       THEN Outcome(0, component.CurrentVersion, commits, n, component.CurrentVersion,
                    TRUE, FALSE, w.err, w.content)
     ELSE Outcome(0, component.CurrentVersion, commits, n, component.CurrentVersion,
                  TRUE, TRUE, t.err, w.content)

StepRecord(c, o) ==
  [comp |-> c, tier |-> o.tier, base |-> o.base, commits |-> o.commits,
   changed |-> o.changed, next |-> o.next, current |-> o.current,
   write |-> o.write, err |-> o.err]

\* versions on disk stay within the model's range
BelowCap(d) ==
  \A c \in CompSet :
    LET r == readVersionFromFile(Ext(c), d[c], CfgPath)
    IN r.err = "" => /\ r.v.major <= MaxField
                     /\ r.v.minor <= MaxField
                     /\ r.v.patch <= MaxField

NavIdle == UNCHANGED <<navVars, fileVars, auxVars, sideVars>>

\* the handler that ended last was monorepo-bump, without error
EndedBumpRun ==
  /\ result = "ok"
  /\ steps # <<>>
  /\ \A i \in 1..Len(steps) : steps[i].tier # 0

HandlerStart(name) ==
  /\ pc = "idle"
  /\ BelowCap(disk)
  /\ LET f == FindComponents(disk)
     IN /\ pc' = IF f.err = "" THEN name ELSE "idle"
        /\ result' = IF f.err = "" THEN "" ELSE "error"
        /\ components' = f.list
        /\ stable' = (stable /\ f.err = "" /\ name = "bump")
  /\ idx' = 1
  /\ steps' = <<>>
  /\ calls' = <<>>
  /\ prior' = IF EndedBumpRun THEN steps ELSE <<>>
  /\ UNCHANGED <<disk, log, tags, budget>>
  /\ NavIdle

BumpStart == HandlerStart("bump")

\* the loop of monorepo-bump going on to the next component after an error
BumpStepContinuing ==
  /\ pc = "bump"
  /\ idx <= Len(components)
  /\ LET component == components[idx]
         c == component.Name
         o == monorepoUpdateVersionStep(component, disk[c])
     IN /\ disk' = [disk EXCEPT ![c] = o.content]
        /\ steps' = Append(steps, StepRecord(c, o))
        /\ calls' = IF o.write
                    THEN Append(calls, [op |-> "UpdateVersion", comp |-> c, v |-> o.next])
                    ELSE calls
        /\ pc' = pc /\ result' = result /\ stable' = stable /\ idx' = idx + 1
  /\ UNCHANGED <<log, tags, components, budget, prior>>
  /\ NavIdle

\* the loop of monorepo-bump creating a tag after each write, as monorepo-tag
\* does
BumpStepTagging ==
  /\ pc = "bump"
  /\ idx <= Len(components)
  /\ LET component == components[idx]
         c == component.Name
         o == monorepoUpdateVersionStep(component, disk[c])
         t == TagForComponent(o.next, c)
     IN /\ disk' = [disk EXCEPT ![c] = o.content]
        /\ steps' = Append(steps, StepRecord(c, o))
        /\ calls' = IF o.write
                    THEN calls \o <<[op |-> "UpdateVersion", comp |-> c, v |-> o.next],
                                    [op |-> "TagForComponent", comp |-> c, v |-> o.next]>>
                    ELSE calls
        /\ tags' = IF o.write /\ o.err = "" THEN t.tags ELSE tags
        /\ IF o.err # ""
           THEN pc' = "idle" /\ result' = "error" /\ stable' = FALSE /\ idx' = idx
           ELSE pc' = pc /\ result' = result /\ stable' = stable /\ idx' = idx + 1
  /\ UNCHANGED <<log, components, budget, prior>>
  /\ NavIdle

BumpStep ==
  /\ pc = "bump"
  /\ idx <= Len(components)
  /\ LET component == components[idx]
         c == component.Name
         o == monorepoUpdateVersionStep(component, disk[c])
     IN /\ disk' = [disk EXCEPT ![c] = o.content]
        /\ steps' = Append(steps, StepRecord(c, o))
        /\ calls' = IF o.write
                    THEN Append(calls, [op |-> "UpdateVersion", comp |-> c, v |-> o.next])
                    ELSE calls
        /\ IF o.err # ""
           THEN pc' = "idle" /\ result' = "error" /\ stable' = FALSE /\ idx' = idx
           ELSE pc' = pc /\ result' = result /\ stable' = stable /\ idx' = idx + 1
  /\ UNCHANGED <<log, tags, components, budget, prior>>
  /\ NavIdle

BumpEnd ==
  /\ pc = "bump"
  /\ idx > Len(components)
  /\ pc' = "idle"
  /\ result' = "ok"
  /\ stable' = TRUE
  /\ UNCHANGED <<disk, log, tags, components, idx, steps, calls, budget, prior>>
  /\ NavIdle

TagStart == HandlerStart("tag")

TagStep ==
  /\ pc = "tag"
  /\ idx <= Len(components)
  /\ LET component == components[idx]
         c == component.Name
         o == monorepoTagStep(component, disk[c])
         t == TagForComponent(o.next, c)
     IN /\ disk' = [disk EXCEPT ![c] = o.content]
        /\ steps' = Append(steps, StepRecord(c, o))
        /\ calls' = calls
                     \o (IF o.write
                         THEN <<[op |-> "UpdateVersion", comp |-> c, v |-> o.next]>>
                         ELSE <<>>)
                     \o (IF o.tag
                         THEN <<[op |-> "TagForComponent", comp |-> c, v |-> o.next]>>
                         ELSE <<>>)
        /\ tags' = IF o.tag THEN t.tags ELSE tags
        /\ IF o.err # ""
           THEN pc' = "idle" /\ result' = "error" /\ idx' = idx
           ELSE pc' = pc /\ result' = result /\ idx' = idx + 1
  /\ UNCHANGED <<log, components, stable, budget, prior>>
  /\ NavIdle

TagEnd ==
  /\ pc = "tag"
  /\ idx > Len(components)
  /\ pc' = "idle"
  /\ result' = "ok"
  /\ UNCHANGED <<disk, log, tags, components, idx, steps, calls, stable, budget, prior>>
  /\ NavIdle

\* ---------------------------------------------------------------- environment

SetIn(content, key, tok) ==
  Map((KeyM :> Map([content.m[KeyM].m EXCEPT ![key] = tok])))

Touches == {"none", "put", "bad", "del"}

\* the document with a version field that holds no semantic version
BadDoc(c, content) == SetIn(content, KeyV, EncodeScalar(Ext(c), Str(<<-1>>)))

\* what a commit stores for the versioning document: touch "put" the document
\* as it is on disk, "bad" a staged document whose version field holds no
\* semantic version, "del" nothing (the commit removes the document)
Committed(c, touch) ==
  CASE touch = "put" -> disk[c]
    [] touch = "bad" /\ disk[c].tag = "map" /\ KeyV \in DOMAIN disk[c].m[KeyM].m
         -> BadDoc(c, disk[c])
    [] OTHER -> Garbage

\* a commit under the component's directory; the history modelled touches
\* one component's directory only
GitCommit(c, class, touch) ==
  /\ pc = "idle"
  /\ budget > 0
  /\ budget' = budget - 1
  /\ \A i \in 1..Len(log) : log[i].comp = c
  /\ log' = Append(log, [comp |-> c, class |-> class,
                         touch |-> IF touch = "bad" THEN "put" ELSE touch,
                         content |-> Committed(c, touch)])
  /\ stable' = FALSE
  /\ components' = <<>>
  /\ idx' = 1
  /\ result' = ""
  /\ steps' = <<>>
  /\ calls' = <<>>
  /\ prior' = <<>>
  /\ UNCHANGED <<disk, tags, pc>>
  /\ NavIdle

\* --------------------------------------------------------------- specification

NoOutcome == [op |-> "", err |-> "", val |-> NoValue, data |-> EmptyMap]

NavInit ==
  /\ navData = EmptyMap
  /\ navSegs = <<>>
  /\ navValue = <<>>
  /\ navOut = NoOutcome

NoFileOutcome ==
  [op |-> "", err |-> "", v |-> NilVersion, before |-> Garbage, wrote |-> FALSE]

FileInit ==
  /\ fileExt = ".json"
  /\ fileContent = Garbage
  /\ filePath = <<>>
  /\ fileVersion = <<>>
  /\ fileOut = NoFileOutcome

NoPathOutcome == [op |-> "", err |-> "", segs |-> <<>>]

PathInit ==
  /\ pathText = <<>>
  /\ pathOut = NoPathOutcome

NoFindOutcome == [op |-> "", err |-> "", list |-> <<>>]

FindInit ==
  /\ findPattern = CfgVersioningFile
  /\ findOut = NoFindOutcome

NoBumpOutcome == [op |-> "", updated |-> FALSE, v |-> NilVersion]

BumpInit ==
  /\ bumpBase = NilVersion
  /\ bumpCommits = <<>>
  /\ bumpOut = NoBumpOutcome

FaultInit == faults = {}

NoNotes == [op |-> "", comp |-> "", sorted |-> <<>>, notes |-> <<>>]

ChInit ==
  /\ chTags = <<>>
  /\ chSize = 0
  /\ chAll = FALSE
  /\ chSemOnly = FALSE
  /\ chOut = NoNotes

RcInit ==
  /\ rcDisk = <<>>
  /\ rcProc = <<>>

SideInit == ChInit /\ RcInit

AuxInit == PathInit /\ FindInit /\ BumpInit /\ FaultInit

RepoInit ==
  /\ disk = [c \in CompSet |-> InitialDoc(c)]
  /\ log = <<>>
  /\ tags = <<>>
  /\ pc = "idle"
  /\ components = <<>>
  /\ idx = 1
  /\ result = ""
  /\ steps = <<>>
  /\ calls = <<>>
  /\ stable = FALSE
  /\ budget = MaxCommits
  /\ prior = <<>>

Init == RepoInit /\ NavInit /\ FileInit /\ AuxInit /\ SideInit

Next ==
  \/ BumpStart
  \/ BumpStep
  \/ BumpEnd
  \/ TagStart
  \/ TagStep
  \/ TagEnd
  \/ \E c \in CompSet, class \in CommitClasses, touch \in Touches :
       GitCommit(c, class, touch)

Spec == Init /\ [][Next]_allVars

\* ------------------------------------------------ the navigator on its own

NavKeys == {KeyM, KeyV}

MapsOver(keys, values) == UNION {[D -> values] : D \in SUBSET keys}

\* the mappings nested at most d deep
RECURSIVE NavTrees(_)
NavTrees(d) ==
  IF d = 0 THEN MapsOver(NavKeys, {Str(<<1, 0, 0>>)})
  ELSE MapsOver(NavKeys, {Str(<<1, 0, 0>>)} \cup {Map(t) : t \in NavTrees(d - 1)})

SeqsUpTo(keys, n) == UNION {[1..k -> keys] : k \in 0..n}

InitNav ==
  /\ RepoInit
  /\ FileInit
  /\ SideInit
  /\ AuxInit
  /\ navData \in NavTrees(MaxDepth)
  /\ navSegs \in SeqsUpTo(NavKeys, MaxSegs)
  /\ navValue = <<1, 1, 0>>
  /\ navOut = NoOutcome

NavFrame == UNCHANGED <<vars, fileVars, auxVars, sideVars>>

NavGet ==
  /\ LET r == getByPath(navData, navSegs)
     IN navOut' = [op |-> "get", err |-> r.err, val |-> r.val, data |-> navData]
  /\ UNCHANGED <<navData, navSegs, navValue>>
  /\ NavFrame

NavSet ==
  /\ LET r == setByPath(navData, navSegs, navValue)
     IN /\ navData' = r.data
        /\ navOut' = [op |-> "set", err |-> r.err, val |-> NoValue, data |-> navData]
  /\ UNCHANGED <<navSegs, navValue>>
  /\ NavFrame

NextNav == NavGet \/ NavSet

SpecNav == InitNav /\ [][NextNav]_allVars

\* -------------------------------------------- the file helpers on their own

FileTokens ==
  {Plain(<<1, 0, 0>>), Quoted(<<1, 0, 0>>), Quoted(<<7>>), Plain(<<7>>), Plain(<<Wide>>)}

\* files of the shape of a versioning document: {m: <scalar or {v, n}>, v: <scalar>},
\* and files whose version is held under a key with a dot: {"m.v": <scalar>}
FileDocs ==
  {Map(f) : f \in MapsOver({KeyM, KeyV}, FileTokens)}
  \cup {Map((KeyM :> Map(g)) @@ f) :
          g \in MapsOver({KeyV, KeyN}, FileTokens), f \in MapsOver({KeyV}, FileTokens)}
  \cup {Map((KeyMV :> t) @@ f) : t \in FileTokens, f \in MapsOver({KeyN}, FileTokens)}
  \cup {Garbage}

FilePaths ==
  { <<".", "m", ".", "v">>, <<"m", ".", "v">>, <<"v">>,
    <<"m", "[", "\"", "v", "\"", "]">>, <<"m", ".", "n">>, <<"m", "[", "v">>, <<>> }

InitFile ==
  /\ RepoInit
  /\ NavInit
  /\ SideInit
  /\ AuxInit
  /\ fileExt \in {".json", ".yml"}
  /\ fileContent \in FileDocs
  /\ filePath \in FilePaths
  /\ fileVersion \in {<<1, 1, 0>>, <<2, 0, 0>>}
  /\ fileOut = NoFileOutcome

FileFrame == UNCHANGED <<vars, navVars, auxVars, sideVars>>

FileWrite ==
  /\ LET r == writeVersionToFile(fileExt, fileContent, filePath, fileVersion)
     IN /\ fileContent' = r.content
        /\ fileOut' = [op |-> "write", err |-> r.err, v |-> NilVersion,
                        before |-> fileContent, wrote |-> (r.err = "")]
  /\ UNCHANGED <<fileExt, filePath, fileVersion>>
  /\ FileFrame

FileRead ==
  /\ LET r == readVersionFromFile(fileExt, fileContent, filePath)
     IN fileOut' = [op |-> "read", err |-> r.err, v |-> r.v,
                    before |-> fileContent, wrote |-> fileOut.wrote]
  /\ UNCHANGED <<fileExt, fileContent, filePath, fileVersion>>
  /\ FileFrame

NextFile == FileWrite \/ FileRead

SpecFile == InitFile /\ [][NextFile]_allVars

\* ------------------------------------------------- parsePath on its own

PathChars == {"a", ".", "[", "]", "\"", "'"}

InitPath ==
  /\ RepoInit
  /\ NavInit
  /\ FileInit
  /\ SideInit
  /\ FindInit
  /\ BumpInit
  /\ FaultInit
  /\ pathText \in SeqsUpTo(PathChars, MaxPathLen)
  /\ pathOut = NoPathOutcome

PathParse ==
  /\ LET r == parsePath(pathText)
     IN pathOut' = [op |-> "parse", err |-> r.err, segs |-> r.segs]
  /\ UNCHANGED <<pathText, vars, navVars, fileVars, findVars, bumpVars, faults, sideVars>>

NextPath == PathParse

SpecPath == InitPath /\ [][NextPath]_allVars

\* --------------------------------------------- FindComponents on its own

Patterns == {"", "[", "*/doc", "alpha/doc", "none/doc"}

\* a component's versioning document: well-formed, with a number or a word
\* for the version, with a scalar where the mapping is expected, without the
\* version key, or no document of the format
FindDocs(c) ==
  { InitialDoc(c),
    BadDoc(c, InitialDoc(c)),
    Doc(Plain(<<7>>), Quoted(<<7>>)),
    Map((KeyM :> Quoted(<<1, 0, 0>>))),
    Map((KeyM :> Map((KeyN :> Quoted(<<7>>))))),
    Garbage }

InitFind ==
  /\ disk \in [CompSet -> UNION {FindDocs(c) : c \in CompSet}]
  /\ \A c \in CompSet : disk[c] \in FindDocs(c)
  /\ log = <<>>
  /\ tags = <<>>
  /\ pc = "idle"
  /\ components = <<>>
  /\ idx = 1
  /\ result = ""
  /\ steps = <<>>
  /\ calls = <<>>
  /\ stable = FALSE
  /\ budget = MaxCommits
  /\ prior = <<>>
  /\ NavInit
  /\ FileInit
  /\ SideInit
  /\ PathInit
  /\ BumpInit
  /\ FaultInit
  /\ findPattern \in Patterns
  /\ findOut = NoFindOutcome

Find ==
  /\ LET f == FindComponentsIn(findPattern, disk)
     IN findOut' = [op |-> "find", err |-> f.err, list |-> f.list]
  /\ UNCHANGED <<findPattern, vars, navVars, fileVars, pathVars, bumpVars, faults,
                 sideVars>>

NextFind == Find

SpecFind == InitFind /\ [][NextFind]_allVars

\* ------------------------------------------------ handlers with a failing call

\* one patch commit under each component's directory
FaultLog ==
  <<[comp |-> "alpha", class |-> "patch", touch |-> "none", content |-> Garbage],
    [comp |-> "beta", class |-> "patch", touch |-> "none", content |-> Garbage]>>

InitFault ==
  /\ disk = [c \in CompSet |-> InitialDoc(c)]
  /\ log \in {<<>>, FaultLog}
  /\ tags = <<>>
  /\ pc = "idle"
  /\ components = <<>>
  /\ idx = 1
  /\ result = ""
  /\ steps = <<>>
  /\ calls = <<>>
  /\ stable = FALSE
  /\ budget = MaxCommits - 1
  /\ prior = <<>>
  /\ NavInit
  /\ FileInit
  /\ SideInit
  /\ PathInit
  /\ FindInit
  /\ BumpInit
  /\ \E c \in CompSet, op \in {"Log", "UpdateVersion"} :
       faults = {[comp |-> c, op |-> op]}

SpecFault == InitFault /\ [][Next]_allVars

\* ------------------------------------------ monorepo-changelog on its own

NoName == [comp |-> "", text |-> <<>>]

TagNameOf(t) == [comp |-> t.comp, text |-> t.text]

\* Git.ComponentTags: the tags <relDir>/v* of the repository
ComponentTags(c) == SelectSeq(chTags, LAMBDA t : t.comp = c)

Reordered(ts) == {[i \in 1..Len(ts) |-> ts[p[i]]] : p \in Permutations(1..Len(ts))}

\* an ordering of the tags oldest first
SortedOldestFirst(ts) ==
  {s \in Reordered(ts) : \A i \in 1..Len(s), j \in 1..Len(s) :
                            i < j => ~(s[j].date < s[i].date)}

\* sort.Slice with Date.After as less: an ordering of the tags in which no
\* tag stands before a newer one; the order of tags of one date is open
SortedByDate(ts) ==
  {s \in Reordered(ts) : \A i \in 1..Len(s), j \in 1..Len(s) :
                            i < j => ~(s[j].date > s[i].date)}

IsValidVersion(text) == ToVersion(text).err = ""

\* the loop over the sorted tags, from position i (the code's i + 1)
RECURSIVE changelogNotes(_, _, _, _, _, _)
changelogNotes(c, sorted, i, size, all, semanticVersionOnly) ==
  IF i > Len(sorted) THEN <<>>
  ELSE IF ~all /\ i - 1 >= size THEN <<>>
  ELSE IF semanticVersionOnly /\ ~IsValidVersion(sorted[i].text)
    THEN changelogNotes(c, sorted, i + 1, size, all, semanticVersionOnly)
  ELSE <<[tag |-> TagNameOf(sorted[i]),
          from |-> IF i + 1 <= Len(sorted) THEN TagNameOf(sorted[i + 1]) ELSE NoName,
          path |-> c,
          version |-> ToVersion(sorted[i].text).v,
          date |-> sorted[i].date]>>
       \o changelogNotes(c, sorted, i + 1, size, all, semanticVersionOnly)

ChTexts == {<<VPrefix, 1, 0, 0>>, <<VPrefix, 1, 1, 0>>, <<VPrefix>>}

\* two dates: tags of one date and tags of different dates both occur
ChDates == {1, 2}

ChTagSet == [comp : CompSet, text : ChTexts, date : ChDates]

InitChangelog ==
  /\ RepoInit
  /\ NavInit
  /\ FileInit
  /\ AuxInit
  /\ RcInit
  /\ chTags \in SeqsUpTo(ChTagSet, MaxTags)
  /\ \A i \in 1..Len(chTags), j \in 1..Len(chTags) :
       i # j => TagNameOf(chTags[i]) # TagNameOf(chTags[j])
  /\ chSize \in 0..MaxTags
  /\ chAll \in BOOLEAN
  /\ chSemOnly \in BOOLEAN
  /\ chOut = NoNotes

\* the body of monorepo-changelog's loop for component c, without
\* --add-next-version
Changelog(c) ==
  /\ \E sorted \in SortedByDate(ComponentTags(c)) :
       chOut' = [op |-> "changelog", comp |-> c, sorted |-> sorted,
                 notes |-> changelogNotes(c, sorted, 1, chSize, chAll, chSemOnly)]
  /\ UNCHANGED <<chTags, chSize, chAll, chSemOnly, rcVars, vars, navVars, fileVars,
                 auxVars>>

NextChangelog == \E c \in CompSet : Changelog(c)

SpecChangelog == InitChangelog /\ [][NextChangelog]_allVars

\* ---------------------------------- two writeVersionToFile calls at once

Writers == {1, 2}

\* the version text each invocation writes
RcVersion(w) == IF w = 1 THEN <<1, 1, 0>> ELSE <<2, 0, 0>>

\* a document {m: {v: "1.0.0", n: <name>}} with one of two names, or one
\* without the version key
RcDocs(c) ==
  {Doc(EncodeScalar(Ext(c), Str(<<1, 0, 0>>)), EncodeScalar(Ext(c), Str(n))) :
     n \in {<<7>>, <<8>>}}
  \cup {Map((KeyM :> Map((KeyN :> EncodeScalar(Ext(c), Str(<<7>>))))))}

InitRace ==
  /\ RepoInit
  /\ NavInit
  /\ FileInit
  /\ AuxInit
  /\ ChInit
  /\ rcDisk \in [CompSet -> UNION {RcDocs(c) : c \in CompSet}]
  /\ \A c \in CompSet : rcDisk[c] \in RcDocs(c)
  /\ rcProc \in [Writers -> [pc : {"read"}, file : CompSet, content : {Garbage},
                              data : {EmptyMap}, err : {""}]]

RcFrame == UNCHANGED <<vars, navVars, fileVars, auxVars, chVars>>

\* os.ReadFile and parseFileContent
RcRead(w) ==
  /\ rcProc[w].pc = "read"
  /\ LET me == rcProc[w]
         d == parseFileContent(Ext(me.file), rcDisk[me.file])
     IN rcProc' = [rcProc EXCEPT ![w] =
                     [me EXCEPT !.content = rcDisk[me.file],
                                !.data = d.data,
                                !.err = d.err,
                                !.pc = IF d.err = "" THEN "set" ELSE "done"]]
  /\ UNCHANGED rcDisk
  /\ RcFrame

\* parsePath and setByPath on the invocation's own copy
RcSet(w) ==
  /\ rcProc[w].pc = "set"
  /\ LET me == rcProc[w]
         p == parsePath(CfgPath)
         r == setByPath(me.data, p.segs, RcVersion(w))
         err == IF p.err # "" THEN "invalid path" ELSE r.err
     IN rcProc' = [rcProc EXCEPT ![w] =
                     [me EXCEPT !.data = IF err = "" THEN r.data ELSE me.data,
                                !.err = err,
                                !.pc = IF err = "" THEN "write" ELSE "done"]]
  /\ UNCHANGED rcDisk
  /\ RcFrame

\* marshalToFile that writes the document over every versioning document
RcWriteEverywhere(w) ==
  /\ rcProc[w].pc = "write"
  /\ rcDisk' = [c \in CompSet |-> marshalToFile(Ext(c), rcProc[w].data)]
  /\ rcProc' = [rcProc EXCEPT ![w].pc = "done"]
  /\ RcFrame

\* marshalToFile: os.WriteFile of the invocation's copy to its file
RcWrite(w) ==
  /\ rcProc[w].pc = "write"
  /\ rcDisk' = [rcDisk EXCEPT ![rcProc[w].file] =
                                 marshalToFile(Ext(rcProc[w].file), rcProc[w].data)]
  /\ rcProc' = [rcProc EXCEPT ![w].pc = "done"]
  /\ RcFrame

NextRace == \E w \in Writers : RcRead(w) \/ RcSet(w) \/ RcWrite(w)

SpecRace == InitRace /\ [][NextRace]_allVars

\* --------------------------- the handlers with edits made outside of them

\* the name a document holds after an edit made outside the handlers
EditedName(c) == EncodeScalar(Ext(c), Str(<<8>>))

\* the version text a hand edit puts into a document: 1.1.0
EditedVersion(c) == EncodeScalar(Ext(c), Str(<<1, 1, 0>>))

HoldsKey(content, key) ==
  /\ content.tag = "map"
  /\ KeyM \in DOMAIN content.m
  /\ content.m[KeyM].tag = "map"
  /\ key \in DOMAIN content.m[KeyM].m

\* another program rewrites the name in c's document after FindComponents
\* and before the running handler comes to c
EditName(c) ==
  /\ pc \in {"bump", "tag"}
  /\ idx <= Len(components)
  /\ components[idx].Name = c
  /\ HoldsKey(disk[c], KeyN)
  /\ disk[c].m[KeyM].m[KeyN] # EditedName(c)
  /\ disk' = [disk EXCEPT ![c] = SetIn(disk[c], KeyN, EditedName(c))]
  /\ calls' = Append(calls, [op |-> "Edit", comp |-> c, v |-> NilVersion])
  /\ UNCHANGED <<log, tags, pc, components, idx, result, steps, stable, budget, prior>>
  /\ NavIdle

\* the version in c's document, still the initial one, is set by hand
EditVersion(c) ==
  /\ pc = "idle"
  /\ disk[c] = InitialDoc(c)
  /\ disk' = [disk EXCEPT ![c] = SetIn(disk[c], KeyV, EditedVersion(c))]
  /\ stable' = FALSE
  /\ components' = <<>>
  /\ idx' = 1
  /\ result' = ""
  /\ steps' = <<>>
  /\ calls' = <<>>
  /\ prior' = <<>>
  /\ UNCHANGED <<log, tags, pc, budget>>
  /\ NavIdle

\* the name of a tag under c's directory that begins with v and holds no
\* version, as <relDir>/vnext
ForeignText == <<VPrefix>>

\* git tag <relDir>/vnext, made by hand
GitTag(c) ==
  /\ pc = "idle"
  /\ \A i \in 1..Len(tags) : ~(tags[i].comp = c /\ tags[i].text = ForeignText)
  /\ tags' = Append(tags, [comp |-> c, at |-> Len(log), text |-> ForeignText])
  /\ stable' = FALSE
  /\ components' = <<>>
  /\ idx' = 1
  /\ result' = ""
  /\ steps' = <<>>
  /\ calls' = <<>>
  /\ prior' = <<>>
  /\ UNCHANGED <<disk, log, pc, budget>>
  /\ NavIdle

\* the handlers, patch commits that leave the document alone or commit it
\* as it is on disk, and the edits
NextEdit ==
  \/ BumpStart
  \/ BumpStep
  \/ BumpEnd
  \/ TagStart
  \/ TagStep
  \/ TagEnd
  \/ \E c \in CompSet, touch \in {"none", "put"} : GitCommit(c, "patch", touch)
  \/ \E c \in CompSet : EditName(c) \/ EditVersion(c) \/ GitTag(c)

SpecEdit == Init /\ [][NextEdit]_allVars

\* ------------------------------------------- the bump resolver on its own

BumpCommit(class) ==
  [comp |-> "alpha", class |-> class, touch |-> "none", content |-> Garbage]

InitBump ==
  /\ RepoInit
  /\ NavInit
  /\ FileInit
  /\ SideInit
  /\ PathInit
  /\ FindInit
  /\ FaultInit
  /\ bumpBase \in {V(1, 2, 3), V(0, 0, 0), V(0, 9, 9)}
  /\ bumpCommits \in {[i \in DOMAIN cs |-> BumpCommit(cs[i])] :
                         cs \in SeqsUpTo(Classes, MaxCommits + 1)}
  /\ bumpOut = NoBumpOutcome

Resolve ==
  /\ LET n == NextVersion(bumpBase, bumpCommits)
     IN bumpOut' = [op |-> "resolve", updated |-> n.updated, v |-> n.v]
  /\ UNCHANGED <<bumpBase, bumpCommits, vars, navVars, fileVars, pathVars, findVars,
                 faults, sideVars>>

NextBump == Resolve

SpecBump == InitBump /\ [][NextBump]_allVars

\* the end-to-end scenario: alpha at 1.0.0, no component tag, one commit of
\* its versioning document holding 1.0.0, two later patch commits under alpha/
ScenarioLog(class) ==
  <<[comp |-> "alpha", class |-> class, touch |-> "put", content |-> InitialDoc("alpha")],
    [comp |-> "alpha", class |-> "patch", touch |-> "none", content |-> Garbage],
    [comp |-> "alpha", class |-> "patch", touch |-> "none", content |-> Garbage]>>

InitE2E ==
  /\ disk = [c \in CompSet |-> InitialDoc(c)]
  /\ \E class \in CommitClasses : log = ScenarioLog(class)
  /\ tags = <<>>
  /\ pc = "idle"
  /\ components = <<>>
  /\ idx = 1
  /\ result = ""
  /\ steps = <<>>
  /\ calls = <<>>
  /\ stable = FALSE
  /\ budget = MaxCommits - 1    \* the scenario holds one commit more than Init
  /\ prior = <<>>
  /\ NavInit
  /\ FileInit
  /\ SideInit
  /\ AuxInit

SpecE2E == InitE2E /\ [][Next]_allVars

\* ----------------------------------------------------- what the claims read

\* positions of the commits under c's directory after position from
CommitsAfter(from, c) == {i \in (from + 1)..Len(log) : log[i].comp = c}

TagsOf(c) == {i \in 1..Len(tags) : tags[i].comp = c}

FileCommitsOf(c) == {i \in 1..Len(log) : log[i].comp = c /\ log[i].touch # "none"}

Max(S) == CHOOSE x \in S : \A y \in S : y <= x

\* the commit set of a step is the commits of c after position from
SameCommits(s, from) ==
  /\ Len(s.commits) = Cardinality(CommitsAfter(from, s.comp))
  /\ \A i \in CommitsAfter(from, s.comp) :
       \E j \in 1..Len(s.commits) : s.commits[j] = log[i]

\* the steps of a monorepo-bump run
BumpSteps == {i \in 1..Len(steps) : steps[i].tier # 0}

\* the version text a committed document holds at metadata.version
VersionTextAt(h) == log[h].content.m[KeyM].m[KeyV].text

HistoryParses(h) ==
  /\ log[h].touch = "put"
  /\ Len(VersionTextAt(h)) = 3
  /\ \A k \in 1..3 : VersionTextAt(h)[k] >= 0

UpdateCalls == SelectSeq(calls, LAMBDA x : x.op = "UpdateVersion")

\* ------------------------------------------------------------------- claims

\* C1: once monorepo-bump has run, running it again with no new commits and
\* no other change writes no versioning document, whichever tier supplied
\* the baseline.
C1_SecondRunWritesNothing == (stable /\ pc = "bump") => UpdateCalls = <<>>

\* the repository is still the end-to-end scenario's: no tag, the history as
\* it started
E2EScenario == tags = <<>> /\ \E class \in CommitClasses : log = ScenarioLog(class)

AlphaBumpSteps == {i \in BumpSteps : steps[i].comp = "alpha"}

\* C2 as stated: in the end-to-end scenario resolution yields 1.0.1 with
\* changed=true, and after 1.0.1 is written re-resolving with no new commits
\* yields 1.0.1 with changed=false.
C2_ReResolveUnchanged ==
  E2EScenario =>
    \A i \in AlphaBumpSteps :
      /\ steps[i].next = V(1, 0, 1)
      /\ steps[i].changed = (steps[i].current = V(1, 0, 0))

\* C2 amended: in the end-to-end scenario resolution yields 1.0.1 with
\* changed=true and 1.0.1 is written; re-resolving with no new commits yields
\* 1.0.1 with changed=true again, and nothing is written because 1.0.1 is
\* the on-disk version.
C2_ReResolveSameVersionNoWrite ==
  E2EScenario =>
    \A i \in AlphaBumpSteps :
      /\ steps[i].tier = 2
      /\ steps[i].base = V(1, 0, 0)
      /\ steps[i].next = V(1, 0, 1)
      /\ steps[i].changed
      /\ steps[i].current \in {V(1, 0, 0), V(1, 0, 1)}
      /\ steps[i].write = (steps[i].current = V(1, 0, 0))
      /\ steps[i].err = ""

\* the second run in the scenario: 1.0.1 is on disk and nothing is written
C2_Witness ==
  /\ E2EScenario
  /\ stable
  /\ \E i \in AlphaBumpSteps :
       /\ steps[i].current = V(1, 0, 1)
       /\ steps[i].next = V(1, 0, 1)
       /\ ~steps[i].write
  /\ readVersionFromFile(Ext("alpha"), disk["alpha"], CfgPath).v = V(1, 0, 1)

\* C3: a component with a component tag is resolved by tier 1 (base version
\* from the tag name, commits since the tag) even when its versioning document
\* has a last commit; with no tag but a last commit of the document by tier 2;
\* with neither by tier 3 (on-disk version, every commit under the directory).
C3_TierPrecedence ==
  \A i \in BumpSteps :
    LET s == steps[i]
        T == TagsOf(s.comp)
        F == FileCommitsOf(s.comp)
    IN /\ T # {} => /\ s.tier = 1
                    /\ TagText(s.base) = tags[Max(T)].text
                    /\ SameCommits(s, tags[Max(T)].at)
       /\ (T = {} /\ F # {}) => s.tier = 2 /\ SameCommits(s, Max(F))
       /\ (T = {} /\ F = {}) => /\ s.tier = 3
                                /\ s.base = s.current
                                /\ SameCommits(s, 0)

\* a tagged component whose document also has a commit, resolved with a base
\* that differs from the document's committed version
C3_Witness ==
  \E i \in BumpSteps :
    /\ TagsOf(steps[i].comp) # {}
    /\ FileCommitsOf(steps[i].comp) # {}
    /\ steps[i].tier = 1
    /\ HistoryParses(Max(FileCommitsOf(steps[i].comp)))
    /\ VersionTextAt(Max(FileCommitsOf(steps[i].comp))) # Original(steps[i].base)

\* C4: in tier 2 the base version is the version the versioning document
\* held at the last commit that modified it, not the version on disk, and the
\* commit set is the commits after that commit under the component's directory.
C4_Tier2BaseFromHistory ==
  \A i \in BumpSteps :
    LET s == steps[i]
        F == FileCommitsOf(s.comp)
    IN (s.tier = 2 /\ HistoryParses(Max(F))) =>
         /\ Original(s.base) = VersionTextAt(Max(F))
         /\ SameCommits(s, Max(F))

\* the version on disk was already bumped and not committed: the base is
\* still the committed one
C4_Witness ==
  \E i \in BumpSteps :
    /\ steps[i].tier = 2
    /\ HistoryParses(Max(FileCommitsOf(steps[i].comp)))
    /\ steps[i].current # steps[i].base
    /\ Original(steps[i].base) = VersionTextAt(Max(FileCommitsOf(steps[i].comp)))

\* C5: in tier 2, when ShowFile fails or the historical content holds no
\* version at the path, the resolver returns no error, the base is the
\* on-disk version and the commit set is still the commits after the
\* document's last commit.
C5_Tier2Fallback ==
  \A i \in BumpSteps :
    LET s == steps[i]
        F == FileCommitsOf(s.comp)
    IN (TagsOf(s.comp) = {} /\ F # {} /\ ~HistoryParses(Max(F))) =>
         /\ s.err = ""
         /\ s.tier = 2
         /\ s.base = s.current
         /\ SameCommits(s, Max(F))

\* the committed document holds no version, commits follow it
C5_Witness ==
  \E i \in BumpSteps :
    LET F == FileCommitsOf(steps[i].comp)
    IN /\ TagsOf(steps[i].comp) = {}
       /\ F # {}
       /\ log[Max(F)].touch = "put"
       /\ ~HistoryParses(Max(F))
       /\ Len(steps[i].commits) > 0
       /\ steps[i].base = steps[i].current

\* C6: monorepo-bump calls UpdateVersion for a component exactly when the
\* resolver reports a change and the next version differs from the on-disk
\* version; otherwise it writes nothing, reports no error and goes on to the
\* next component.
C6_WriteIffChangedAndDifferent ==
  /\ \A i \in BumpSteps :
       /\ steps[i].write = (steps[i].changed /\ steps[i].next # steps[i].current)
       /\ ~steps[i].write => steps[i].err = ""
       /\ (~steps[i].write /\ i = Len(steps) /\ i < Len(components)) =>
            (pc = "bump" /\ idx = i + 1)
  /\ BumpSteps # {} =>
       /\ Len(UpdateCalls) = Cardinality({i \in BumpSteps : steps[i].write})
       /\ \A j \in 1..Len(UpdateCalls) :
            \E i \in BumpSteps : /\ steps[i].write
                                  /\ steps[i].comp = UpdateCalls[j].comp
                                  /\ steps[i].next = UpdateCalls[j].v

\* a component skipped because it is already at the next version, followed
\* by the next component
C6_Witness ==
  /\ Len(steps) = 2
  /\ steps[1].tier # 0
  /\ steps[1].changed
  /\ steps[1].next = steps[1].current
  /\ ~steps[1].write

\* ---------------------------------------------- reading a tree by a key path

Missing == [tag |-> "missing", text |-> <<>>, m |-> EmptyMap]

\* the node a key sequence leads to from a node, Missing when it leads nowhere
RECURSIVE Descend(_, _)
Descend(node, keys) ==
  IF keys = <<>> THEN node
  ELSE IF node.tag = "map" /\ Head(keys) \in DOMAIN node.m
       THEN Descend(node.m[Head(keys)], Tail(keys))
       ELSE Missing

Prefix(s, i) == SubSeq(s, 1, i)

IsPrefix(a, b) == Len(a) <= Len(b) /\ Prefix(b, Len(a)) = a

Apart(a, b) == ~IsPrefix(a, b) /\ ~IsPrefix(b, a)

\* the i-th segment is looked up in a mapping that does not hold it
AbsentAt(tree, segs, i) ==
  LET n == Descend(tree, Prefix(segs, i - 1))
  IN n.tag = "map" /\ segs[i] \notin DOMAIN n.m

\* the i-th segment leads to a value that is not a mapping
ScalarAt(tree, segs, i) ==
  LET n == Descend(tree, Prefix(segs, i))
  IN n # Missing /\ n.tag # "map"

\* C7: once writeVersionToFile has succeeded for a document, a path and a
\* version text, readVersionFromFile on the same file and path succeeds and
\* the version it returns has exactly that text as its Original(), in YAML
\* and in JSON documents alike.
C7_WriteThenRead ==
  (fileOut.op = "read" /\ fileOut.wrote) =>
    /\ fileOut.err = ""
    /\ Original(fileOut.v) = fileVersion

C7_Witness ==
  /\ fileOut.op = "read"
  /\ fileOut.wrote
  /\ fileExt = ".json"
  /\ filePath = <<"m", "[", "\"", "v", "\"", "]">>
  /\ Original(fileOut.v) = <<2, 0, 0>>

FileKeys == {KeyM, KeyV, KeyN}

FileQueries == SeqsUpTo(FileKeys, MaxDepth + 1)

\* the value a scalar token stands for, as written in the file
RECURSIVE Written(_, _)
Written(ext, tok) ==
  IF tok.tag = "map" THEN Map([k \in DOMAIN tok.m |-> Written(ext, tok.m[k])])
  ELSE IF tok.tag = "quoted" THEN Str(tok.text)
  ELSE IF ext = ".json" \/ LooksNumeric(tok.text) THEN Num(tok.text)
  ELSE Str(tok.text)

\* C8: a successful writeVersionToFile changes only the value at the
\* addressed path: every key path apart from it leads to the same value in
\* the document after the write as before it, the mappings on the way to it
\* keep their keys, and the addressed key holds the version text.
C8_OnlyAddressedValueChanges ==
  (fileOut.op = "write" /\ fileOut.err = "") =>
    LET before == Written(fileExt, fileOut.before)
        after == Written(fileExt, fileContent)
        segs == parsePath(filePath).segs
    IN /\ \A q \in FileQueries :
            /\ Apart(q, segs) => Descend(after, q) = Descend(before, q)
            /\ (IsPrefix(q, segs) /\ q # segs) =>
                 /\ Descend(after, q).tag = "map"
                 /\ DOMAIN Descend(after, q).m = DOMAIN Descend(before, q).m
       /\ Descend(after, segs) = Str(fileVersion)

NavQueries == SeqsUpTo(NavKeys, MaxDepth + 1)

Quotes == {"\"", "'"}

\* the first position at or after from where text holds ch, 0 when none
RECURSIVE IndexOf(_, _, _)
IndexOf(text, ch, from) ==
  IF from > Len(text) THEN 0
  ELSE IF text[from] = ch THEN from
  ELSE IndexOf(text, ch, from + 1)

\* the non-empty pieces of a text between its dots
RECURSIVE SplitDots(_)
SplitDots(text) ==
  LET d == IndexOf(text, ".", 1)
  IN IF text = <<>> THEN <<>>
     ELSE IF d = 0 THEN <<text>>
     ELSE (IF d > 1 THEN <<SubSeq(text, 1, d - 1)>> ELSE <<>>)
          \o SplitDots(SubSeq(text, d + 1, Len(text)))

\* the segments of a well-formed path expression: the pieces before its
\* first bracket, the literal of that bracket, the segments of what follows
RECURSIVE Segments(_)
Segments(text) ==
  LET open == IndexOf(text, "[", 1)
      close == IndexOf(text, text[open + 1], open + 2)
  IN IF open = 0 THEN SplitDots(text)
     ELSE SplitDots(SubSeq(text, 1, open - 1))
          \o <<SubSeq(text, open + 2, close - 1)>>
          \o Segments(SubSeq(text, close + 2, Len(text)))

\* C11: parsePath splits un-bracketed text at every '.' and takes the text
\* between ["..."] or ['...'] verbatim as exactly one segment, dots included;
\* the first occurrence of the opening quote character ends the literal.
C11_ParsePathSegments ==
  (pathOut.op = "parse" /\ pathOut.err = "") =>
    /\ pathOut.segs = Segments(pathText)
    /\ IndexOf(pathText, "[", 1) = 0 => pathOut.segs = SplitDots(pathText)

C11_Witness ==
  /\ pathOut.op = "parse"
  /\ pathOut.err = ""
  /\ pathText = <<"a", "[", "'", ".", "\"", "'", "]">>
  /\ pathOut.segs = << <<"a">>, <<".", "\"">> >>

\* a bracket that ends the text, is not followed by a quote character, or
\* whose literal is not closed, at the first bracket or a later one
RECURSIVE BadBracket(_)
BadBracket(text) ==
  LET open == IndexOf(text, "[", 1)
      close == IndexOf(text, text[open + 1], open + 2)
  IN /\ open # 0
     /\ \/ open = Len(text)
        \/ text[open + 1] \notin Quotes
        \/ close = 0
        \/ BadBracket(SubSeq(text, close + 1, Len(text)))

\* C12: parsePath fails, returning no segments, on empty input, on a '['
\* that ends the input, on a '[' not followed by a quote character and on
\* a literal whose closing quote is missing; a successful parse returns at
\* least one segment.
C12_ParsePathFailures ==
  pathOut.op = "parse" =>
    /\ pathOut.err # "" => pathOut.segs = <<>>
    /\ pathOut.err = "" => Len(pathOut.segs) > 0
    /\ pathText = <<>> => pathOut.err # ""
    /\ BadBracket(pathText) => pathOut.err # ""

C12_Witness ==
  /\ pathOut.op = "parse"
  /\ pathOut.err # ""
  /\ pathText = <<"a", ".", "[">>

\* C13: a key that holds a '.' is addressed by a plain dotted path: in a
\* document {"m.v": "1.0.0"} the path m.v, parsed to the segments m and v,
\* reads the version under the key "m.v" and writes the version text to it.
C13_DottedKeyByPlainPath ==
  ( /\ fileOut.op \in {"read", "write"}
    /\ filePath = <<"m", ".", "v">>
    /\ fileOut.before = Map((KeyMV :> Quoted(<<1, 0, 0>>))) ) =>
    /\ fileOut.err = ""
    /\ fileOut.op = "read" => Original(fileOut.v) = <<1, 0, 0>>
    /\ fileOut.op = "write" => fileContent = Map((KeyMV :> Quoted(fileVersion)))

\* the document holds a quoted or plain text of three numeric fields at m.v
HoldsVersion(ext, doc) ==
  /\ doc.tag = "map"
  /\ KeyM \in DOMAIN doc.m
  /\ doc.m[KeyM].tag = "map"
  /\ KeyV \in DOMAIN doc.m[KeyM].m
  /\ LET tok == doc.m[KeyM].m[KeyV]
     IN /\ tok.tag = "quoted" \/ (tok.tag = "plain" /\ ext # ".json")
        /\ Len(tok.text) = 3
        /\ \A i \in 1..3 : tok.text[i] >= 0

\* C14: FindComponents is all-or-nothing. It returns an error and no
\* component when the pattern is empty, is no glob, matches nothing, or when
\* the document of any match does not yield a version; otherwise it returns
\* exactly one component for every match, in order, with the version of its
\* document. It never returns an empty list without an error.
C14_FindAllOrNothing ==
  findOut.op = "find" =>
    LET g == Glob(findPattern)
        failing == \/ findPattern = ""
                   \/ g.err # ""
                   \/ Len(g.matches) = 0
                   \/ \E i \in 1..Len(g.matches) :
                        ~HoldsVersion(Ext(g.matches[i]), disk[g.matches[i]])
    IN /\ failing <=> findOut.err # ""
       /\ findOut.err # "" => findOut.list = <<>>
       /\ findOut.err = "" =>
            /\ Len(findOut.list) = Len(g.matches)
            /\ Len(findOut.list) > 0
            /\ \A i \in 1..Len(g.matches) :
                 /\ findOut.list[i].Name = g.matches[i]
                 /\ Original(findOut.list[i].CurrentVersion)
                      = disk[g.matches[i]].m[KeyM].m[KeyV].text

\* the first match is well-formed, the second is not: nothing is returned
C14_Witness ==
  /\ findOut.op = "find"
  /\ findPattern = "*/doc"
  /\ HoldsVersion(Ext("alpha"), disk["alpha"])
  /\ ~HoldsVersion(Ext("beta"), disk["beta"])
  /\ findOut.err # ""
  /\ findOut.list = <<>>

\* the file decodes: it is a mapping and, in JSON, holds no bare word
Decodes(ext, doc) ==
  doc.tag = "map" /\ parseFileContent(ext, doc).err = ""

\* the text is major.minor.patch with numeric fields
IsVersionText(t) == Len(t) = 3 /\ \A i \in 1..3 : t[i] >= 0

\* C15: reading a version fails, returning no version, when the value at
\* the path is not a string (a number such as 123 is rejected, not read as
\* text) and when it is a string that is no semantic version.
C15_ReadRejectsNonVersion ==
  ( /\ fileOut.op = "read"
    /\ Decodes(fileExt, fileOut.before)
    /\ parsePath(filePath).err = "" ) =>
    LET node == Descend(Written(fileExt, fileOut.before), parsePath(filePath).segs)
    IN /\ (node # Missing /\ node.tag # "str") =>
            fileOut.err = "not a string" /\ fileOut.v = NilVersion
       /\ (node.tag = "str" /\ ~IsVersionText(node.text)) =>
            fileOut.err = "invalid semver" /\ fileOut.v = NilVersion

\* version: 7 in a YAML document
C15_Witness ==
  /\ fileOut.op = "read"
  /\ fileExt = ".yml"
  /\ filePath = <<"v">>
  /\ fileOut.before.tag = "map"
  /\ KeyV \in DOMAIN fileOut.before.m
  /\ fileOut.before.m[KeyV] = Plain(<<7>>)
  /\ fileOut.err = "not a string"

\* C16: when writeVersionToFile fails because the path expression is
\* malformed, a key on the path is missing or a value on the way is not a
\* mapping, it returns the error and the file is left as it was.
C16_FailedWriteLeavesFile ==
  fileOut.op = "write" =>
    LET p == parsePath(filePath)
        tree == Written(fileExt, fileOut.before)
    IN /\ fileOut.err # "" => fileContent = fileOut.before
       /\ Decodes(fileExt, fileOut.before) =>
            /\ p.err # "" => fileOut.err = "invalid path"
            /\ (p.err = "" /\ \E i \in 1..Len(p.segs) : AbsentAt(tree, p.segs, i))
                 => fileOut.err = "not found"
            /\ (p.err = "" /\ \E i \in 1..(Len(p.segs) - 1) : ScalarAt(tree, p.segs, i))
                 => fileOut.err = "not a map"

\* m is a scalar in a YAML file whose re-encoding would differ, path m.v
C16_Witness ==
  /\ fileOut.op = "write"
  /\ fileOut.err = "not a map"
  /\ fileExt = ".yml"
  /\ fileOut.before.tag = "map"
  /\ marshalToFile(fileExt, parseFileContent(fileExt, fileOut.before).data)
       # fileOut.before
  /\ fileContent = fileOut.before

\* some commit of the sequence has the class
HasClass(commits, class) == \E i \in 1..Len(commits) : commits[i].class = class

\* the orderings of a sequence
Orderings(commits) ==
  LET n == Len(commits)
      perms == {f \in [1..n -> 1..n] : \A i, j \in 1..n : f[i] = f[j] => i = j}
  IN {[i \in 1..n |-> commits[f[i]]] : f \in perms}

\* C17: the bump resolver returns (base, changed=false) when no commit
\* classifies above none; otherwise the highest classification among the
\* commits decides: major gives major+1.0.0, minor gives major.minor+1.0,
\* patch gives major.minor.patch+1; the order of the commits does not matter.
C17_HighestClassDecides ==
  bumpOut.op = "resolve" =>
    LET b == bumpBase
        expected ==
          IF HasClass(bumpCommits, "major") THEN V(b.major + 1, 0, 0)
          ELSE IF HasClass(bumpCommits, "minor") THEN V(b.major, b.minor + 1, 0)
          ELSE IF HasClass(bumpCommits, "patch") THEN V(b.major, b.minor, b.patch + 1)
          ELSE b
    IN /\ bumpOut.v = expected
       /\ bumpOut.updated <=> \E c \in {"major", "minor", "patch"} : HasClass(bumpCommits, c)
       /\ \A o \in Orderings(bumpCommits) :
            LET n == NextVersion(bumpBase, o)
            IN n.v = bumpOut.v /\ n.updated = bumpOut.updated

\* base 1.2.3 with patch commits and one major commit that is not the newest
C17_Witness ==
  /\ bumpOut.op = "resolve"
  /\ bumpBase = V(1, 2, 3)
  /\ Len(bumpCommits) = 3
  /\ bumpCommits[1].class = "patch"
  /\ bumpCommits[2].class = "major"
  /\ bumpCommits[3].class = "patch"
  /\ bumpOut.v = V(2, 0, 0)
  /\ bumpOut.updated

\* C18: when baseline resolution or UpdateVersion fails for a component the
\* handler returns an error at once: the failing component's step is the
\* last of the run, nothing is called for a later component, and a failing
\* call is never passed over.
C18_ErrorAbortsRun ==
  /\ \A i \in 1..Len(steps) :
       /\ steps[i].err # "" => i = Len(steps) /\ pc = "idle" /\ result = "error"
       /\ Fails(steps[i].comp, "Log") => steps[i].err # "" /\ ~steps[i].write
       /\ (Fails(steps[i].comp, "UpdateVersion") /\ steps[i].write) =>
            /\ steps[i].err # ""
            /\ \A k \in 1..Len(calls) :
                 calls[k].comp = steps[i].comp => calls[k].op # "TagForComponent"
       /\ steps[i].comp = components[i].Name
  /\ \A k \in 1..Len(calls) : \E i \in 1..Len(steps) : steps[i].comp = calls[k].comp
  /\ result = "ok" => \A c \in CompSet : ~Fails(c, "Log")

\* alpha's step failed and ended the run while beta has a commit to release
C18_Witness ==
  /\ faults # {}
  /\ Len(steps) = 1
  /\ steps[1].comp = "alpha"
  /\ steps[1].err # ""
  /\ steps[1].tier # 0
  /\ pc = "idle"
  /\ result = "error"
  /\ \E i \in 1..Len(log) : log[i].comp = "beta" /\ log[i].class = "patch"
  /\ disk["beta"] = InitialDoc("beta")

\* ---------------------------------------------------------------------- C19

\* the calls of the run in progress that create a tag
TagCalls(cs) == {k \in 1..Len(cs) : cs[k].op = "TagForComponent"}

\* C19: a step of monorepo-bump, whatever the components and the commits,
\* leaves the tags as they are and records no call of TagForComponent; the
\* only thing it may change on disk is the step's own versioning document.
C19_BumpNeverTags ==
  [][pc = "bump" =>
       /\ tags' = tags
       /\ TagCalls(calls') = {}
       /\ log' = log
       /\ \A c \in CompSet :
            disk'[c] # disk[c] =>
              /\ idx <= Len(components)
              /\ components[idx].Name = c
              /\ calls' = Append(calls, [op |-> "UpdateVersion", comp |-> c,
                                          v |-> steps'[Len(steps')].next])]_allVars

\* monorepo-bump has written a bumped version while a commit is still untagged
C19_Witness ==
  /\ pc = "bump"
  /\ \E k \in 1..Len(calls) : calls[k].op = "UpdateVersion"
  /\ \E c \in CompSet : disk[c] # InitialDoc(c)
  /\ Len(log) > 0

\* ---------------------------------------------------------------------- C20

\* the calls of TagForComponent of the run in progress that created a tag
TagsCreated ==
  {k \in TagCalls(calls) :
     \E i \in 1..Len(steps) : steps[i].comp = calls[k].comp /\ steps[i].err = ""}

C22_GetSetSymmetric ==
  /\ navOut.op = "set" =>
       /\ navOut.err = getByPath(navOut.data, navSegs).err
       /\ navOut.err = "" =>
            getByPath(navData, navSegs) = [err |-> "", val |-> Str(navValue)]
  /\ navOut.op = "get" =>
       /\ navOut.err = setByPath(navData, navSegs, navValue).err
       /\ navOut.err = "" =>
            getByPath(setByPath(navData, navSegs, navValue).data, navSegs)
              = [err |-> "", val |-> Str(navValue)]

\* setByPath has replaced a value two levels down and getByPath reads it back
C22_Witness ==
  /\ navOut.op = "set"
  /\ navOut.err = ""
  /\ Len(navSegs) = 2
  /\ getByPath(navOut.data, navSegs).val # Str(navValue)
  /\ getByPath(navData, navSegs).val = Str(navValue)

\* ---------------------------------------------------------------------- C23

\* both parses fail, or both succeed with the same segments
SameParse(r1, r2) == (r1.err = "") = (r2.err = "") /\ r1.segs = r2.segs

\* the positions of the ']' that close a bracket segment, reading from i
RECURSIVE Closers(_, _)
Closers(text, i) ==
  IF i > Len(text) THEN {}
  ELSE IF text[i] # "[" THEN Closers(text, i + 1)
  ELSE IF i + 1 > Len(text) \/ text[i + 1] \notin Quotes THEN {}
  ELSE LET close == IndexOf(text, text[i + 1], i + 2)
       IN IF close = 0 \/ close + 1 > Len(text) \/ text[close + 1] # "]" THEN {}
          ELSE {close + 1} \cup Closers(text, close + 2)

Without(text, k) == SubSeq(text, 1, k - 1) \o SubSeq(text, k + 1, Len(text))

\* C23: for every path p, parsePath("." + p) ends as parsePath(p) does (both
\* fail, or both give the same segments), and a path with a '.' directly
\* after a closing ']' ends as the path without that '.' does.
C23_OptionalDots ==
  pathOut.op = "parse" =>
    /\ SameParse(parsePath(<<".">> \o pathText), pathOut)
    /\ \A k \in Closers(pathText, 1) :
         (k < Len(pathText) /\ pathText[k + 1] = ".") =>
           SameParse(parsePath(Without(pathText, k + 1)), pathOut)

\* a["a"]. is parsed to the segments a and a, as a["a"] is
C23_Witness ==
  /\ pathOut.op = "parse"
  /\ pathText = <<"a", "[", "\"", "a", "\"", "]", ".">>
  /\ pathOut.segs = <<<<"a">>, <<"a">>>>
  /\ 6 \in Closers(pathText, 1)
  /\ parsePath(Without(pathText, 7)).segs = pathOut.segs

\* ---------------------------------------------------------------------- C24

TagRunSteps == {i \in 1..Len(steps) : steps[i].tier = 0}

UpdateCall(c, v) == [op |-> "UpdateVersion", comp |-> c, v |-> v]

\* C24: in monorepo-tag every call of TagForComponent directly follows the
\* call of UpdateVersion for the same component with the same version; a
\* component whose next version is changed has UpdateVersion called with that
\* version and, when the update succeeds, a tag <component directory>/v<next
\* version> created at HEAD; when UpdateVersion fails no tag is created for
\* the component.
C24_UpdateBeforeTag ==
  /\ \A k \in TagCalls(calls) :
       /\ k > 1
       /\ calls[k - 1] = UpdateCall(calls[k].comp, calls[k].v)
       /\ ~Fails(calls[k].comp, "UpdateVersion")
  /\ \A i \in TagRunSteps :
       LET s == steps[i]
       IN /\ s.changed =>
               \E k \in 1..Len(calls) : calls[k] = UpdateCall(s.comp, s.next)
          /\ (s.changed /\ s.err = "") =>
               /\ \E k \in TagCalls(calls) : calls[k].comp = s.comp /\ calls[k].v = s.next
               /\ LastComponentTag(s.comp)
                    = [comp |-> s.comp, at |-> Len(log), text |-> TagText(s.next)]
          /\ ~s.changed =>
               \A k \in 1..Len(calls) : calls[k].comp # s.comp
  /\ \A c \in CompSet : Fails(c, "UpdateVersion") => TagsOf(c) = {}

\* monorepo-tag has found a changed version, UpdateVersion has failed, the run
\* has ended with that error and the component has no tag
C24_Witness ==
  /\ result = "error"
  /\ \E i \in TagRunSteps :
       /\ steps[i].changed
       /\ Fails(steps[i].comp, "UpdateVersion")
       /\ steps[i].err # ""
       /\ calls = <<UpdateCall(steps[i].comp, steps[i].next)>>
       /\ tags = <<>>

\* ---------------------------------------------------------------------- C25

\* the tags of the repository under component c
ChTagsOf(c) == {chTags[i] : i \in {k \in 1..Len(chTags) : chTags[k].comp = c}}

Min(a, b) == IF a < b THEN a ELSE b

\* C25: the release notes monorepo-changelog builds for a component are notes
\* of that component's tags, newest first by tag date, at most size of them
\* unless --all is set, the newest ones; each note's commits are fetched for
\* the component's directory from the next-older tag of the component (none
\* for the oldest tag, an open start) to the note's tag; the notes go to the
\* formatter in that order.
C25_ChangelogNewestFirst ==
  chOut.op = "changelog" =>
    LET c == chOut.comp
        T == ChTagsOf(c)
        notes == chOut.notes
        n == Len(notes)
        Listed == {notes[k].tag : k \in 1..n}
    IN /\ \A k \in 1..n :
            /\ \E t \in T : TagNameOf(t) = notes[k].tag /\ t.date = notes[k].date
            /\ notes[k].path = c
            /\ notes[k].version = ToVersion(notes[k].tag.text).v
       /\ \A i \in 1..n, j \in 1..n : i < j =>
            /\ notes[i].date >= notes[j].date
            /\ notes[i].tag # notes[j].tag
       /\ ~chAll => n <= chSize
       /\ ~chSemOnly =>
            /\ n = IF chAll THEN Cardinality(T) ELSE Min(chSize, Cardinality(T))
            /\ \A k \in 1..(n - 1) : notes[k].from = notes[k + 1].tag
       /\ chSemOnly => \A k \in 1..n : IsValidVersion(notes[k].tag.text)
       /\ \A t \in T : \A k \in 1..n :
            (TagNameOf(t) \notin Listed /\ (~chSemOnly \/ IsValidVersion(t.text)))
              => t.date <= notes[k].date
       /\ \A k \in 1..n :
            IF notes[k].from = NoName
            THEN \A t \in T : t.date >= notes[k].date
            ELSE \E f \in T :
                   /\ TagNameOf(f) = notes[k].from
                   /\ notes[k].from # notes[k].tag
                   /\ f.date <= notes[k].date
                   /\ \A u \in T : ~(f.date < u.date /\ u.date < notes[k].date)
       /\ \A k \in 1..n :
            notes[k].from = NoName =>
              /\ k = n
              /\ \A t \in T : TagNameOf(t) # notes[k].tag =>
                   (TagNameOf(t) \in Listed \/ (chSemOnly /\ ~IsValidVersion(t.text)))

\* three tags of one component, listed by git oldest first; size 2 lists the
\* two newest, the second from the oldest tag on
C25_Witness ==
  /\ chOut.op = "changelog"
  /\ ~chAll /\ ~chSemOnly /\ chSize = 2
  /\ Len(chTags) = 3
  /\ \A i \in 1..3 : chTags[i].comp = chOut.comp
  /\ chTags[1].date < chTags[3].date
  /\ Len(chOut.notes) = 2
  /\ chOut.notes[1].tag = TagNameOf(chTags[3])
  /\ chOut.notes[2].from = TagNameOf(chTags[1])

\* ---------------------------------------------------------------------- C26

\* the decoded document of file c, and what it held before either invocation
RcNow(c) == parseFileContent(Ext(c), rcDisk[c]).data

\* the document the invocation read, decoded
RcRead0(w) == parseFileContent(Ext(rcProc[w].file), rcProc[w].content).data

\* C26: when two invocations of writeVersionToFile on different documents
\* have both ended, in whatever order their reads, sets and writes were
\* taken, the document of an invocation that succeeded holds the version
\* that invocation set and every other key as it was, and the document of an
\* invocation that failed is the document it read.
C26_DifferentDocumentsSafe ==
  ( /\ \A w \in Writers : rcProc[w].pc = "done"
    /\ rcProc[1].file # rcProc[2].file ) =>
    \A w \in Writers :
      LET c == rcProc[w].file
      IN IF rcProc[w].err = ""
         THEN /\ readVersionFromFile(Ext(c), rcDisk[c], CfgPath)
                   = ToVersion(RcVersion(w))
              /\ DOMAIN RcNow(c) = DOMAIN RcRead0(w)
              /\ DOMAIN RcNow(c)[KeyM].m = DOMAIN RcRead0(w)[KeyM].m
              /\ RcNow(c)[KeyM].m[KeyN] = RcRead0(w)[KeyM].m[KeyN]
         ELSE rcDisk[c] = rcProc[w].content

\* both invocations have written, each its own document and version
C26_Witness ==
  /\ \A w \in Writers : rcProc[w].pc = "done" /\ rcProc[w].err = ""
  /\ rcProc[1].file # rcProc[2].file
  /\ \A w \in Writers :
       readVersionFromFile(Ext(rcProc[w].file), rcDisk[rcProc[w].file], CfgPath).v
         = ToVersion(RcVersion(w)).v

\* ---------------------------------------------------------------------- C27

EditCall(c) == [op |-> "Edit", comp |-> c, v |-> NilVersion]

\* the positions in calls of the successful UpdateVersion calls for c that
\* follow an edit of c's document made during the same run
UpdatesAfterEdit(c) ==
  {k \in 1..Len(calls) :
     /\ calls[k].op = "UpdateVersion"
     /\ calls[k].comp = c
     /\ \E e \in 1..(k - 1) : calls[e] = EditCall(c)
     /\ \E i \in 1..Len(steps) : steps[i].comp = c /\ steps[i].err = ""}

\* C27: a name written into a component's document by another program after
\* FindComponents and before UpdateVersion is still in the document after
\* UpdateVersion has succeeded, next to the version UpdateVersion has set.
C27_UpdateKeepsOutOfBandEdit ==
  \A c \in CompSet :
    /\ (\E e \in 1..Len(calls) : calls[e] = EditCall(c)) =>
         /\ HoldsKey(disk[c], KeyN)
         /\ disk[c].m[KeyM].m[KeyN] = EditedName(c)
    /\ \A k \in UpdatesAfterEdit(c) :
         /\ HoldsKey(disk[c], KeyV)
         /\ disk[c].m[KeyM].m[KeyV] = EncodeScalar(Ext(c), Str(Original(calls[k].v)))

\* monorepo-bump has found alpha, the name in alpha's document has been
\* edited, and UpdateVersion has then written the next version
C27_Witness ==
  /\ pc = "bump"
  /\ UpdatesAfterEdit("alpha") # {}
  /\ disk["alpha"].m[KeyM].m[KeyN] = EditedName("alpha")
  /\ disk["alpha"].m[KeyM].m[KeyV] # InitialDoc("alpha").m[KeyM].m[KeyV]

\* ---------------------------------------------------------------------- C28

\* the steps of the monorepo-bump run before the running monorepo-tag that
\* wrote a version to the component's document
WroteBefore(c) == {j \in 1..Len(prior) : prior[j].comp = c /\ prior[j].write}

\* C28: when monorepo-bump has written version v to a component's document
\* and monorepo-tag runs next with no commit in between, monorepo-tag finds
\* v as the component's version, creates the tag for v and leaves the
\* document at v.
C28_TagAfterBumpKeepsVersion ==
  \A i \in TagRunSteps :
    \A j \in WroteBefore(steps[i].comp) :
      LET c == steps[i].comp
          v == prior[j].next
      IN steps[i].err = "" =>
           /\ steps[i].current = v
           /\ readVersionFromFile(Ext(c), disk[c], CfgPath).v = v
           /\ LastComponentTag(c) # NoTag
           /\ LastComponentTag(c).text = TagText(v)

\* ---------------------------------------------------------------------- C29

\* a is a later version than b: major, then minor, then patch
Greater(a, b) ==
  \/ a.major > b.major
  \/ a.major = b.major /\ a.minor > b.minor
  \/ a.major = b.major /\ a.minor = b.minor /\ a.patch > b.patch

\* C29: the version monorepo-bump passes to UpdateVersion is greater than the
\* version the component's document holds on disk, also when that version is
\* ahead of the version of the last component tag or of the last committed
\* document.
C29_BumpNeverLowers ==
  \A i \in BumpSteps :
    (steps[i].write /\ steps[i].base # NilVersion) =>
      Greater(steps[i].next, steps[i].current)

\* ---------------------------------------------------------------------- C30

\* C30: a step of monorepo-bump whose baseline is resolved without error has
\* a parsed version as base, in every tier and whatever the name of the last
\* tag under the component's directory.
C30_BaseNeverNil ==
  \A i \in BumpSteps :
    steps[i].err = "" =>
      /\ steps[i].base # NilVersion
      /\ steps[i].base.major >= 0
      /\ steps[i].base.minor >= 0
      /\ steps[i].base.patch >= 0

====
